---- MODULE Spec2Model ----
(***************************************************************************)
(* Batch job pipeline of the content bank: the batch_jobs table and its    *)
(* update operation (bank_service.py), the two endpoints that create jobs   *)
(* (api/v1/video.py batch-render, api/v1/bank.py batch-generate), the       *)
(* render worker (scripts/process_render_queue.py) and the batch content    *)
(* generator (batch_generation_service.py).                                *)
(*                                                                         *)
(* Further parts, each with a specification of its own: the render of a     *)
(* bank item (render_from_bank_service.py), the preview poll loop           *)
(* (weekly_schedule_service.py), the stock search (pexels_client.py), the   *)
(* render submit (creatomate_client.py), the duplicate filter               *)
(* (batch_generation_service.py) and the audio picker (audio_service.py).   *)
(*                                                                         *)
(* Worker runs are separate OS processes (cron --once, --job-id, or the     *)
(* continuous loop) sharing one database, so every database call of a run   *)
(* is one step and the steps of different runs interleave.                  *)
(***************************************************************************)
EXTENDS Integers, Sequences, FiniteSets, TLC

\* ------------------------------------------------------------------ bounds
MaxJobs == 1        \* batch-render requests (video_render rows of batch_jobs)
MaxItems == 3       \* content ids of one batch-render request
MaxCount == 3       \* count of one batch-generate request
MaxPosts == 2       \* posts of a weekly schedule whose previews are rendered
MaxVideos == 3      \* videos in one response of the stock search API
MaxResults == 2     \* max_results of one search_videos call
MaxAssets == 2      \* assets of one render request
MaxPool == 2        \* rows of the bank a duplicate check is made against
MaxTracks == 3      \* rows of the audio_tracks table
MaxCalls == 2       \* render-from-bank requests

Workers == {"w1", "w2"}

\* ------------------------------------------------------------------ values
None == <<>>                    \* Python None / SQL NULL for optional values
Some(x) == <<x>>

Terminal == {"succeeded", "failed"}

\* the result slot of a call that has not been made
NotCalled == [outcome |-> "not called", assets |-> <<>>]

\* error texts written by the worker and the endpoints
ErrAll(total) == <<"All renders failed", total>>
ErrPartial(failed, total) == <<"renders failed", failed, total>>
ErrException == <<"exception text">>

VARIABLES
    jobs,       \* batch_jobs table: sequence of rows, the index is the id
    bank,       \* content_bank_items table: sequence of rows, the index is the id
    wpc,        \* worker run: position in main / process_batch_render_job
    wjob,       \* worker run: job_id
    wids,       \* worker run: content_ids read from the job loaded at line 54
    widx,       \* worker run: items handled so far (idx of the next item)
    wsucc,      \* worker run: succeeded
    wfail,      \* worker run: failed
    gpc,        \* batch-generate request: position in the handler
    gjob,       \* batch-generate request: id of its job row
    greq,       \* batch-generate request: BatchGenerateRequest
    gout,       \* generate_batch_content: outcome of each item so far, in order
    created_ids,     \* generate_batch_content: created_ids
    failed_count,    \* generate_batch_content: failed_count
    duplicate_count, \* generate_batch_content: duplicate_count
    renders,    \* render requests POSTed to the compositor for bank items, in order
    ppc,        \* preview render: position in auto_render_post_preview / its caller
    attempts,   \* preview render: attempts
    status_checks,  \* preview render: calls of check_render_status so far
    sleeps,     \* preview render: calls of asyncio.sleep so far
    prior,      \* preview render: the answers the loop has polled past
    poll_return,    \* preview render: the return statement taken and its value
    pdone,      \* render_all_previews: what each post handled so far came to
    stock_call, \* search_videos: arguments and the response of the stock API
    stock_assets,   \* search_videos: what the call returned
    submit_call,    \* start_render: the request and API_BASE_URL
    submit_out, \* start_render: what the call did
    dup_call,   \* _is_near_duplicate: the arguments of the call
    dup_out,    \* _is_near_duplicate: what the call returned
    audio_call, \* pick_track_for_plan: AUDIO_MODE, the arguments, the audio_tracks table
    audio_out,  \* pick_track_for_plan: what the call returned and the queries it made
    rlog        \* render_video_from_bank_item: the calls made on the bank, in order

wvars == <<wpc, wjob, wids, widx, wsucc, wfail>>
gvars == <<gpc, gjob, greq, gout, created_ids, failed_count, duplicate_count>>
pvars == <<ppc, attempts, status_checks, sleeps, prior, poll_return, pdone>>
svars == <<stock_call, stock_assets>>
uvars == <<submit_call, submit_out>>
qvars == <<dup_call, dup_out, audio_call, audio_out, rlog>>
evars == <<renders, pvars, svars, uvars, qvars>>
vars == <<jobs, bank, wpc, wjob, wids, widx, wsucc, wfail,
          gpc, gjob, greq, gout, created_ids, failed_count, duplicate_count,
          renders, ppc, attempts, status_checks, sleeps, prior, poll_return, pdone,
          stock_call, stock_assets, submit_call, submit_out,
          dup_call, dup_out, audio_call, audio_out, rlog>>

\* ------------------------------------------------------------- job store

\* create_batch_job: a new row with the caller's type, payload, status and
\* progress; error and completed_at are left NULL.
create_batch_job(js, type, payload, status, progress) ==
    Append(js, [type |-> type, payload_json |-> payload, status |-> status,
                progress |-> progress, error |-> None, completed_at |-> None])

\* get_batch_job: the row, or None
get_batch_job(js, job_id) ==
    IF job_id \in DOMAIN js THEN Some(js[job_id]) ELSE None

\* update_batch_job_status: status, progress and error are optional (None is
\* "leave alone"); completed_at is stamped whenever the status argument is
\* terminal (the time itself is not kept, only that the column is set).  No
\* check of the row's current status is made.
update_batch_job_status(js, job_id, status, progress, error) ==
    IF job_id \notin DOMAIN js THEN js
    ELSE LET job == js[job_id]
             j1 == IF status # None THEN [job EXCEPT !.status = status[1]] ELSE job
             j2 == IF progress # None THEN [j1 EXCEPT !.progress = progress[1]] ELSE j1
             j3 == IF error # None THEN [j2 EXCEPT !.error = error] ELSE j2
             j4 == IF status # None /\ status[1] \in Terminal
                   THEN [j3 EXCEPT !.completed_at = Some("utcnow")] ELSE j3
         IN [js EXCEPT ![job_id] = j4]

\* what update_batch_job_status returns: None for a missing row, else the
\* refreshed row; it has no other result
update_batch_job_status_result(js, job_id) ==
    IF job_id \in DOMAIN js THEN "BatchJobModel" ELSE "None"

\* ------------------------------------------------------------ content bank

\* get_bank_item: the row, or None
get_bank_item(b, item_id) ==
    IF item_id \in DOMAIN b THEN Some(b[item_id]) ELSE None

\* Values render_video_from_bank_item hands back to the worker for an approved
\* item: a rendered URL, None (voiceover, visuals or render failed), or an
\* exception escaping its own handler.
RenderOutcomes == {"url", "none", "raise"}

\* ----------------------------------------------------- batch-render endpoint

\* ids a client can name: rows of the bank and one id past its end
ItemIds == 1..3

\* content_ids of a request, each item named once; an empty list is answered
\* with HTTP 400 before any job is created
ContentIdLists ==
    {ids \in UNION {[1..n -> ItemIds] : n \in 1..MaxItems} :
        \A i, k \in DOMAIN ids : i # k => ids[i] # ids[k]}

\* POST /batch-render: creates the job row in "pending" with progress 0
batch_render_videos(content_ids) ==
    /\ Len(jobs) < MaxJobs
    /\ content_ids # <<>>
    /\ jobs' = create_batch_job(jobs, "video_render", content_ids, "pending", 0)
    /\ UNCHANGED <<bank, wvars, gvars, evars>>

\* ------------------------------------------------------------ render worker

\* progress = int(((idx + 1) / total) * 100): the float quotient truncated.
\* For every total the bounds allow the float product truncates to the exact
\* integer quotient.
ProgressAfter(done, total) == (100 * done) \div total

\* main, --once and continuous mode: the oldest pending video_render job
PendingRenderJobs ==
    {j \in DOMAIN jobs : jobs[j].type = "video_render" /\ jobs[j].status = "pending"}

WorkerPoll(w) ==
    /\ wpc[w] = "idle"
    /\ PendingRenderJobs # {}
    /\ LET job_id == CHOOSE j \in PendingRenderJobs : \A k \in PendingRenderJobs : j <= k
       IN wjob' = [wjob EXCEPT ![w] = job_id]
    /\ wpc' = [wpc EXCEPT ![w] = "load"]
    /\ UNCHANGED <<jobs, bank, wids, widx, wsucc, wfail, gvars, evars>>

\* main, --job-id mode: any id the operator types
WorkerJobId(w, job_id) ==
    /\ wpc[w] = "idle"
    /\ wjob' = [wjob EXCEPT ![w] = job_id]
    /\ wpc' = [wpc EXCEPT ![w] = "load"]
    /\ UNCHANGED <<jobs, bank, wids, widx, wsucc, wfail, gvars, evars>>

\* process_batch_render_job returns: the locals of the run are dropped
Return(w) ==
    /\ wpc' = [wpc EXCEPT ![w] = "idle"]
    /\ wjob' = [wjob EXCEPT ![w] = 0]
    /\ wids' = [wids EXCEPT ![w] = <<>>]
    /\ widx' = [widx EXCEPT ![w] = 0]
    /\ wsucc' = [wsucc EXCEPT ![w] = 0]
    /\ wfail' = [wfail EXCEPT ![w] = 0]

\* process_batch_render_job lines 54-65: load the job and the three checks
JobAccepted(job) ==
    IF job = None THEN FALSE
    ELSE /\ job[1].type = "video_render"
         /\ job[1].status \in {"pending", "running"}

LoadJob(w) ==
    /\ wpc[w] = "load"
    /\ LET job == get_batch_job(jobs, wjob[w])
       IN IF JobAccepted(job)
          THEN /\ wids' = [wids EXCEPT ![w] = job[1].payload_json]
               /\ wpc' = [wpc EXCEPT ![w] = "mark"]
               /\ UNCHANGED <<wjob, widx, wsucc, wfail>>
          ELSE Return(w)
    /\ UNCHANGED <<jobs, bank, gvars, evars>>

\* line 68, then lines 71-78: mark as running with progress 0; a job without
\* content ids is completed at once
MarkRunning(w) ==
    /\ wpc[w] = "mark"
    /\ LET marked == update_batch_job_status(jobs, wjob[w], Some("running"), Some(0), None)
       IN IF wids[w] = <<>>
          THEN /\ jobs' = update_batch_job_status(marked, wjob[w], Some("succeeded"),
                                                  Some(100), None)
               /\ Return(w)
          ELSE /\ jobs' = marked
               /\ wpc' = [wpc EXCEPT ![w] = "item"]
               /\ UNCHANGED <<wjob, wids, widx, wsucc, wfail>>
    /\ UNCHANGED <<bank, gvars, evars>>

\* after an item: next item, or the completion step
AdvanceItem(w) ==
    /\ widx' = [widx EXCEPT ![w] = widx[w] + 1]
    /\ wpc' = [wpc EXCEPT ![w] = IF widx[w] + 1 = Len(wids[w]) THEN "finish" ELSE "item"]

\* lines 88-99: the item of this iteration exists and is approved
ItemIsApproved(w) ==
    LET item == get_bank_item(bank, wids[w][widx[w] + 1])
    IN IF item = None THEN FALSE ELSE item[1].status = "approved"

\* lines 88-99: the item is missing or not approved; failed is counted and
\* `continue` goes to the next item, past the progress update of line 118
ItemSkipped(w) ==
    /\ wpc[w] = "item"
    /\ ~ItemIsApproved(w)
    /\ wfail' = [wfail EXCEPT ![w] = wfail[w] + 1]
    /\ AdvanceItem(w)
    /\ UNCHANGED <<jobs, bank, wjob, wids, wsucc, gvars, evars>>

\* lines 101-118: the item is rendered, its outcome counted, progress written
ItemRendered(w, outcome) ==
    /\ wpc[w] = "item"
    /\ ItemIsApproved(w)
    /\ IF outcome = "url"
       THEN wsucc' = [wsucc EXCEPT ![w] = wsucc[w] + 1] /\ UNCHANGED wfail
       ELSE wfail' = [wfail EXCEPT ![w] = wfail[w] + 1] /\ UNCHANGED wsucc
    /\ jobs' = update_batch_job_status(jobs, wjob[w], None,
                   Some(ProgressAfter(widx[w] + 1, Len(wids[w]))), None)
    /\ AdvanceItem(w)
    /\ UNCHANGED <<bank, wjob, wids, gvars, evars>>

\* lines 121-129: status and error of the finished run
FinalStatus(succeeded, failed) ==
    IF failed = 0 THEN "succeeded"
    ELSE IF succeeded = 0 THEN "failed"
    ELSE "succeeded"

FinalError(succeeded, failed, total) ==
    IF failed = 0 THEN None
    ELSE IF succeeded = 0 THEN ErrAll(total)
    ELSE ErrPartial(failed, total)

\* lines 131-142: mark the job as complete
FinishJob(w) ==
    /\ wpc[w] = "finish"
    /\ jobs' = update_batch_job_status(jobs, wjob[w],
                   Some(FinalStatus(wsucc[w], wfail[w])), Some(100),
                   FinalError(wsucc[w], wfail[w], Len(wids[w])))
    /\ Return(w)
    /\ UNCHANGED <<bank, gvars, evars>>

\* lines 144-152: a database call of the try block raises outside the
\* per-item handler (the progress write of line 118 after a rendered item, or
\* the completion write of line 131); the job-level handler marks the job
\* failed with the exception text and writes no progress
JobException(w) ==
    /\ \/ wpc[w] = "item" /\ ItemIsApproved(w)
       \/ wpc[w] = "finish"
    /\ jobs' = update_batch_job_status(jobs, wjob[w], Some("failed"), None, ErrException)
    /\ Return(w)
    /\ UNCHANGED <<bank, gvars, evars>>

\* ------------------------------------------------------- duplicate filter

\* A text is the sequence of its whitespace-separated words, case kept.
\* str.lower() on the words of the model's vocabulary.
Lower(word) ==
    CASE word = "Drink" -> "drink"
      [] word = "Water" -> "water"
      [] word = "Sleep" -> "sleep"
      [] word = "WELL" -> "well"
      [] OTHER -> word

\* set(text.lower().split())
WordSet(text) == {Lower(text[i]) : i \in DOMAIN text}

\* _calculate_text_similarity with two texts without words taken as identical
_calculate_text_similarity_empty_is_same(text1, text2) ==
    LET words1 == WordSet(text1)
        words2 == WordSet(text2)
    IN IF words1 = {} /\ words2 = {} THEN <<1, 1>>
       ELSE IF words1 = {} \/ words2 = {} THEN <<0, 1>>
       ELSE <<Cardinality(words1 \cap words2), Cardinality(words1 \cup words2)>>

\* _calculate_text_similarity: |intersection| / |union| as the fraction
\* <<numerator, denominator>>, 0.0 when either word set is empty
_calculate_text_similarity(text1, text2) ==
    LET words1 == WordSet(text1)
        words2 == WordSet(text2)
    IN IF words1 = {} \/ words2 = {} THEN <<0, 1>>
       ELSE <<Cardinality(words1 \cap words2), Cardinality(words1 \cup words2)>>

\* similarity > similarity_threshold, the threshold given in tenths
ExceedsThreshold(sim, tenths) == sim[1] * 10 > tenths * sim[2]

\* text[:n] of a text whose words are separated by single spaces, as the words
\* the slice is split into: the words that end within the first n characters,
\* and the beginning of the word that character n falls in
RECURSIVE Offset(_, _)
Offset(text, i) == IF i = 1 THEN 0 ELSE Offset(text, i - 1) + Len(text[i - 1]) + 1

FirstChars(text, n) ==
    LET begun == {i \in DOMAIN text : Offset(text, i) < n}
    IN [i \in 1..Cardinality(begun) |->
           IF Offset(text, i) + Len(text[i]) <= n THEN text[i]
           ELSE SubSeq(text[i], 1, n - Offset(text, i))]

\* the length of the script slices of lines 89-90
ScriptChars == 200

\* ComparisonPool with the cluster filter applied also when no cluster is given
ComparisonPoolClusterAlways(b, content_pillar, topic_cluster) ==
    {i \in DOMAIN b :
        /\ b[i].content_pillar = content_pillar
        /\ b[i].recent
        /\ b[i].topic_cluster = topic_cluster}

\* lines 64-75: recent items of the same pillar, and of the same cluster when
\* a cluster is given
ComparisonPool(b, content_pillar, topic_cluster) ==
    {i \in DOMAIN b :
        /\ b[i].content_pillar = content_pillar
        /\ b[i].recent
        /\ (topic_cluster # None => b[i].topic_cluster = topic_cluster)}

\* _is_near_duplicate, lines 77-98: some item of the pool has a title, or a
\* script slice, whose similarity with the new one is above the threshold
_is_near_duplicate(b, new_title, new_script, content_pillar, topic_cluster, tenths) ==
    \E i \in ComparisonPool(b, content_pillar, topic_cluster) :
        \/ ExceedsThreshold(_calculate_text_similarity(new_title, b[i].title), tenths)
        \/ ExceedsThreshold(_calculate_text_similarity(FirstChars(new_script, ScriptChars),
                                                       FirstChars(b[i].script, ScriptChars)),
                            tenths)

\* the media and usage columns of a content_bank_items row
MediaColumns ==
    {"voiceover_url", "primary_asset_url", "secondary_asset_url",
     "rendered_video_url", "last_render_status", "times_used"}

\* a row from its creative columns and its media columns
BankRow(creative, media) ==
    [c \in DOMAIN creative \cup MediaColumns |->
        IF c \in MediaColumns THEN media[c] ELSE creative[c]]

\* the media columns of a row nothing was rendered from: NULL, times_used 0
NoMedia ==
    [voiceover_url |-> None, primary_asset_url |-> None, secondary_asset_url |-> None,
     rendered_video_url |-> None, last_render_status |-> None, times_used |-> 0]

\* create_bank_item: the columns the constructor call passes; topic_cluster is
\* not among them and stays NULL, as do the media columns.  created_at is now,
\* inside every lookback.
create_bank_item(b, title, script, content_pillar, status) ==
    Append(b, BankRow([title |-> title, script |-> script,
                       content_pillar |-> content_pillar, topic_cluster |-> None,
                       status |-> status, recent |-> TRUE], NoMedia))

\* similarity_threshold default 0.4, in tenths
DefaultThreshold == 4

\* a script of 203 characters: "drink " 33 times, then "water"
LongScript == [i \in 1..34 |-> IF i < 34 THEN "drink" ELSE "water"]

\* rows the comparison can meet: titles and scripts in either case, a long
\* script, another pillar, an old row, a row whose hook came out empty
DupRows == {
    BankRow([title |-> <<"Drink", "Water">>, script |-> <<"Drink", "Water", "daily">>,
             content_pillar |-> "education", topic_cluster |-> Some("energy"),
             status |-> "approved", recent |-> TRUE], NoMedia),
    BankRow([title |-> <<"walk", "outside">>, script |-> LongScript,
             content_pillar |-> "education", topic_cluster |-> None,
             status |-> "draft", recent |-> TRUE], NoMedia),
    BankRow([title |-> <<"Sleep", "WELL">>, script |-> <<"wa", "ter">>,
             content_pillar |-> "education", topic_cluster |-> Some("energy"),
             status |-> "draft", recent |-> TRUE], NoMedia),
    BankRow([title |-> <<"drink", "water">>, script |-> <<"tonight">>,
             content_pillar |-> "routine", topic_cluster |-> None,
             status |-> "draft", recent |-> TRUE], NoMedia),
    BankRow([title |-> <<"drink", "water">>, script |-> <<"daily">>,
             content_pillar |-> "education", topic_cluster |-> None,
             status |-> "approved", recent |-> FALSE], NoMedia),
    BankRow([title |-> <<>>, script |-> <<>>,
             content_pillar |-> "education", topic_cluster |-> None,
             status |-> "draft", recent |-> TRUE], NoMedia) }

\* the table when _is_near_duplicate is called
DupBanks == UNION {[1..n -> DupRows] : n \in 1..MaxPool}

\* similarity_threshold values, in tenths: below 0, 0, the default, 1.0, above
Thresholds == {-1, 0, 3, DefaultThreshold, 5, 9, 10, 11}

\* the arguments of a call
DupCalls ==
    [new_title : {<<"drink", "water">>, <<"Drink", "Water">>, <<"walk", "outside">>, <<>>},
     new_script : {<<"Drink", "Water", "daily">>, LongScript, <<"water">>, <<>>},
     content_pillar : {"education", "routine"},
     topic_cluster : {None, Some("energy")},
     similarity_threshold : Thresholds]

\* one call of _is_near_duplicate on the table
is_near_duplicate_call ==
    /\ dup_call # None
    /\ dup_out = NotCalled
    /\ dup_out' = [outcome |-> "returned",
                   value |-> _is_near_duplicate(bank, dup_call.new_title, dup_call.new_script,
                                 dup_call.content_pillar, dup_call.topic_cluster,
                                 dup_call.similarity_threshold)]
    /\ UNCHANGED <<jobs, bank, wvars, gvars, renders, pvars, svars, uvars,
                   dup_call, audio_call, audio_out, rlog>>

\* --------------------------------------------------- batch-generate endpoint

\* plans create_content_plan can return: the first line of the script (the
\* hook, under 100 characters) and the rest of it
Plans == {
    [hook |-> <<"drink", "water">>, rest |-> <<"daily">>],
    [hook |-> <<"Sleep", "WELL">>, rest |-> <<"tonight">>],
    [hook |-> <<"walk", "outside">>, rest |-> <<"today">>] }

Script(plan) == plan.hook \o plan.rest

PillarLists == { <<>>, <<"education">>, <<"education", "routine">> }

Requests ==
    [count : 1..MaxCount, content_pillars : PillarLists,
     topic_cluster : {None, Some("energy")}, similarity_threshold : {DefaultThreshold}]

\* line 207: rotate through the pillars, "education" when none is given
PillarOf(req, i) ==
    IF req.content_pillars # <<>>
    THEN req.content_pillars[(i % Len(req.content_pillars)) + 1]
    ELSE "education"

\* bank.py lines 126-135: the job row is created in "running" with progress 0
batch_generate_content(req) ==
    /\ gpc = "idle"
    /\ jobs' = create_batch_job(jobs, "content_generation", <<>>, "running", 0)
    /\ gjob' = Len(jobs) + 1
    /\ greq' = req
    /\ gpc' = "item"
    /\ gout' = <<>>
    /\ created_ids' = <<>>
    /\ failed_count' = 0
    /\ duplicate_count' = 0
    /\ UNCHANGED <<bank, wvars, evars>>

\* AdvanceGen with the per-item handler leaving the loop on a generation
\* error instead of going on to the next item
AdvanceGenBreakOnError(kind, plan) ==
    /\ gout' = Append(gout, [kind |-> kind, plan |-> plan])
    /\ gpc' = IF Len(gout) + 1 = greq.count \/ kind = "generation_failed"
              THEN "finish" ELSE "item"

\* after an item of the loop of line 205: next item, or back in the endpoint
AdvanceGen(kind, plan) ==
    /\ gout' = Append(gout, [kind |-> kind, plan |-> plan])
    /\ gpc' = IF Len(gout) + 1 = greq.count THEN "finish" ELSE "item"

\* line 232 raises: counted as failed by the handler of line 275
GenerationThrows ==
    /\ gpc = "item"
    /\ failed_count' = failed_count + 1
    /\ AdvanceGen("generation_failed", None)
    /\ UNCHANGED <<jobs, bank, wvars, evars, gjob, greq, created_ids, duplicate_count>>

\* GenDuplicate with the skip raising instead of continuing: the handler of
\* line 275 counts the item as failed as well
GenDuplicateCountsFailure(plan) ==
    /\ gpc = "item"
    /\ _is_near_duplicate(bank, plan.hook, Script(plan), PillarOf(greq, Len(gout)),
                          greq.topic_cluster, greq.similarity_threshold)
    /\ duplicate_count' = duplicate_count + 1
    /\ failed_count' = failed_count + 1
    /\ AdvanceGen("duplicate", Some(plan))
    /\ UNCHANGED <<jobs, bank, wvars, evars, gjob, greq, created_ids>>

\* lines 240-250: the plan is a near-duplicate and is skipped
GenDuplicate(plan) ==
    /\ gpc = "item"
    /\ _is_near_duplicate(bank, plan.hook, Script(plan), PillarOf(greq, Len(gout)),
                          greq.topic_cluster, greq.similarity_threshold)
    /\ duplicate_count' = duplicate_count + 1
    /\ AdvanceGen("duplicate", Some(plan))
    /\ UNCHANGED <<jobs, bank, wvars, evars, gjob, greq, created_ids, failed_count>>

\* lines 253-268: the plan is inserted as a draft and its id appended
GenCreated(plan) ==
    /\ gpc = "item"
    /\ ~_is_near_duplicate(bank, plan.hook, Script(plan), PillarOf(greq, Len(gout)),
                           greq.topic_cluster, greq.similarity_threshold)
    /\ bank' = create_bank_item(bank, plan.hook, Script(plan),
                                PillarOf(greq, Len(gout)), "draft")
    /\ created_ids' = Append(created_ids, Len(bank) + 1)
    /\ AdvanceGen("created", Some(plan))
    /\ UNCHANGED <<jobs, wvars, evars, gjob, greq, failed_count, duplicate_count>>

\* line 267 raises (the insert fails): counted as failed by the same handler
GenInsertThrows(plan) ==
    /\ gpc = "item"
    /\ ~_is_near_duplicate(bank, plan.hook, Script(plan), PillarOf(greq, Len(gout)),
                           greq.topic_cluster, greq.similarity_threshold)
    /\ failed_count' = failed_count + 1
    /\ AdvanceGen("insert_failed", Some(plan))
    /\ UNCHANGED <<jobs, bank, wvars, evars, gjob, greq, created_ids, duplicate_count>>

\* bank.py lines 152-166: generate_batch_content returned
GenSucceeded ==
    /\ gpc = "finish"
    /\ jobs' = update_batch_job_status(jobs, gjob, Some("succeeded"), Some(100), None)
    /\ gpc' = "done"
    /\ UNCHANGED <<bank, wvars, evars, gjob, greq, gout, created_ids, failed_count, duplicate_count>>

\* bank.py lines 167-178: generate_batch_content raised; only the query of
\* lines 181-194, made when a cluster is given, is outside the per-item handler
GenRaised ==
    /\ gpc = "item"
    /\ gout = <<>>
    /\ greq.topic_cluster # None
    /\ jobs' = update_batch_job_status(jobs, gjob, Some("failed"), None, ErrException)
    /\ gpc' = "raised"
    /\ UNCHANGED <<bank, wvars, evars, gjob, greq, gout, created_ids, failed_count, duplicate_count>>

\* ------------------------------------------------------- render from bank

\* update_bank_item: the columns that are set in `data` are written; a missing
\* row is left alone
update_bank_item(b, item_id, data) ==
    IF item_id \notin DOMAIN b THEN b
    ELSE [b EXCEPT ![item_id] =
             [c \in DOMAIN b[item_id] |->
                 IF c \in DOMAIN data THEN data[c] ELSE b[item_id][c]]]

\* mark_item_used: times_used + 1 (the timestamps are not kept)
mark_item_used(b, item_id) ==
    IF item_id \notin DOMAIN b THEN b
    ELSE [b EXCEPT ![item_id].times_used = @ + 1]

\* getattr(settings, "TTS_API_URL", None): Settings declares no such field and
\* reads only the fields it declares, so the lookup gives the default
TTS_API_URL == None

\* an exception raised by a call, where the other answers are sequences
Raised == <<"raise", "exception text">>

\* what generate_voiceover_url does when it is called: a URL, or an exception
VoiceoverAnswers == {Some("vo.mp3"), Raised}

\* ensure_voiceover_for_bank_item: the item's voiceover URL, or None; the bank
\* after its writes
ensure_voiceover_for_bank_item(b, item_id, answer) ==
    LET item == get_bank_item(b, item_id)
    IN IF item = None THEN [bank |-> b, url |-> None]
       ELSE IF item[1].voiceover_url # None
            THEN [bank |-> b, url |-> item[1].voiceover_url]
       ELSE IF TTS_API_URL = None THEN [bank |-> b, url |-> None]
       ELSE IF item[1].status # "approved" THEN [bank |-> b, url |-> None]
       ELSE IF answer = Raised
            THEN [bank |-> update_bank_item(b, item_id,
                               [last_render_status |-> Some("voiceover_error: exception text")]),
                  url |-> None]
       ELSE [bank |-> update_bank_item(b, item_id, [voiceover_url |-> answer]),
             url |-> answer]

\* stock clips (their video URLs)
Assets == {"a1", "a2", "a3"}

\* what search_videos returns to _select_visuals_for_bank_item for the query
\* built from the item, and for the generic query: up to max_clips * 2 clips,
\* or an exception
StockAnswers ==
    {<<>>, <<"a1">>, <<"a1", "a2">>, <<"a1", "a2", "a3">>, <<"a3", "a1", "a2">>, Raised}

FallbackAnswers == {<<>>, <<"a3">>, Raised}

\* results[:max_clips]
FirstClips(results, max_clips) ==
    SubSeq(results, 1, IF Len(results) < max_clips THEN Len(results) ELSE max_clips)

\* _select_visuals_for_bank_item without the reuse of lines 44-49
_select_visuals_always_search(item, max_clips, results, fallback) ==
    IF results = Raised THEN <<>>
    ELSE IF results # <<>> THEN FirstClips(results, max_clips)
    ELSE IF fallback = Raised THEN <<>>
    ELSE FirstClips(fallback, max_clips)

\* _select_visuals_for_bank_item: the stored assets of the item when it has a
\* primary asset, else the first max_clips results of the search (of the
\* generic search when the first finds nothing); [] when a search raises
_select_visuals_for_bank_item(item, max_clips, results, fallback) ==
    IF item.primary_asset_url # None
    THEN FirstClips(<<item.primary_asset_url[1]>> \o
                    (IF item.secondary_asset_url # None /\ max_clips > 1
                     THEN <<item.secondary_asset_url[1]>> ELSE <<>>), max_clips)
    ELSE IF results = Raised THEN <<>>
    ELSE IF results # <<>> THEN FirstClips(results, max_clips)
    ELSE IF fallback = Raised THEN <<>>
    ELSE FirstClips(fallback, max_clips)

\* the search_videos calls _select_visuals_for_bank_item makes: none when the
\* item has a primary asset (lines 44-49), else the search of line 78 and,
\* when it returns nothing, the search of line 83
stock_searches(item, results) ==
    IF item.primary_asset_url # None THEN 0
    ELSE IF results = <<>> THEN 2
    ELSE 1

\* render_video raises instead of returning a RenderJob
SubmitRaised == [status |-> "exception", video_url |-> None]

\* the RenderJob start_render returns for the submit response (status of the
\* response, "failed" when it carries an error; the URL only with "succeeded"),
\* or an exception
SubmitAnswers ==
    {[status |-> "pending", video_url |-> None],
     [status |-> "rendering", video_url |-> None],
     [status |-> "succeeded", video_url |-> Some("v1.mp4")],
     [status |-> "succeeded", video_url |-> None],
     [status |-> "failed", video_url |-> None],
     SubmitRaised}

\* what the compositor makes of a render in the end; nothing reads it
TerminalAnswers ==
    {[status |-> "succeeded", video_url |-> Some("v1.mp4")],
     [status |-> "failed", video_url |-> None]}

\* the answers of the outside world to one render_video_from_bank_item call
RenderEnvs ==
    [voiceover : VoiceoverAnswers, results : StockAnswers, fallback : FallbackAnswers,
     submit : SubmitAnswers, terminal : TerminalAnswers]

\* str(e) of the AttributeError of line 203: RenderJob has no error_message
NoErrorMessage == "'RenderJob' object has no attribute 'error_message'"

\* RenderStep with mark_item_used called when the render is submitted
RenderStepMarksOnSubmit(b, rs, item_id, voiceover_url, asset_urls, submit) ==
    LET pending == mark_item_used(
                       update_bank_item(b, item_id, [last_render_status |-> Some("pending")]),
                       item_id)
        sent == Append(rs, [item |-> item_id, assets |-> asset_urls,
                            voiceover_url |-> voiceover_url])
    IN IF submit = SubmitRaised
       THEN [bank |-> update_bank_item(pending, item_id,
                          [last_render_status |-> Some("failed: exception text")]),
             renders |-> sent, result |-> None]
       ELSE IF submit.status = "succeeded" /\ submit.video_url # None
       THEN [bank |-> update_bank_item(pending, item_id,
                          [rendered_video_url |-> submit.video_url,
                           last_render_status |-> Some("succeeded")]),
             renders |-> sent, result |-> submit.video_url]
       ELSE [bank |-> update_bank_item(pending, item_id,
                          [last_render_status |-> Some("failed: " \o NoErrorMessage)]),
             renders |-> sent, result |-> None]

\* render_video_from_bank_item lines 178-219, from the render_video call on.
\* rs is the list of requests given to render_video so far.
RenderStep(b, rs, item_id, voiceover_url, asset_urls, submit) ==
    LET pending == update_bank_item(b, item_id, [last_render_status |-> Some("pending")])
        sent == Append(rs, [item |-> item_id, assets |-> asset_urls,
                            voiceover_url |-> voiceover_url])
    IN IF submit = SubmitRaised
       THEN [bank |-> update_bank_item(pending, item_id,
                          [last_render_status |-> Some("failed: exception text")]),
             renders |-> sent, result |-> None]
       ELSE IF submit.status = "succeeded" /\ submit.video_url # None
       THEN [bank |-> mark_item_used(
                          update_bank_item(pending, item_id,
                              [rendered_video_url |-> submit.video_url,
                               last_render_status |-> Some("succeeded")]), item_id),
             renders |-> sent, result |-> submit.video_url]
       ELSE [bank |-> update_bank_item(pending, item_id,
                          [last_render_status |-> Some("failed: " \o NoErrorMessage)]),
             renders |-> sent, result |-> None]

\* render_video_from_bank_item: the bank and the render requests after the
\* call, the URL or None it returns, and the stock searches it made
render_video_from_bank_item(b, rs, item_id, template_type, env) ==
    LET item == get_bank_item(b, item_id)
    IN IF item = None
       THEN [bank |-> b, renders |-> rs, result |-> None, searches |-> 0]
       ELSE IF item[1].status # "approved"
       THEN [bank |-> b, renders |-> rs, result |-> None, searches |-> 0]
       ELSE LET vo == ensure_voiceover_for_bank_item(b, item_id, env.voiceover)
                max_clips == IF template_type = "video" THEN 2 ELSE 1
                asset_urls == _select_visuals_for_bank_item(item[1], max_clips, env.results,
                                                            env.fallback)
                searches == stock_searches(item[1], env.results)
                saved == update_bank_item(vo.bank, item_id,
                             IF Len(asset_urls) > 1
                             THEN [primary_asset_url |-> Some(asset_urls[1]),
                                   secondary_asset_url |-> Some(asset_urls[2])]
                             ELSE [primary_asset_url |-> Some(asset_urls[1])])
                rendered == RenderStep(saved, rs, item_id, vo.url, asset_urls, env.submit)
            IN IF vo.url = None
               THEN [bank |-> update_bank_item(vo.bank, item_id,
                         [last_render_status |-> Some("failed: voiceover_generation_failed")]),
                     renders |-> rs, result |-> None, searches |-> 0]
               ELSE IF asset_urls = <<>>
               THEN [bank |-> update_bank_item(vo.bank, item_id,
                         [last_render_status |-> Some("failed: no_visuals_found")]),
                     renders |-> rs, result |-> None, searches |-> searches]
               ELSE [bank |-> rendered.bank, renders |-> rendered.renders,
                     result |-> rendered.result, searches |-> searches]

\* the answers of the outside world to a call made through the endpoint: no
\* TTS service is asked (none is configured), nothing polls the render
EndpointEnvs ==
    {env \in RenderEnvs :
        /\ env.voiceover = Raised
        /\ env.terminal = [status |-> "failed", video_url |-> None]}

\* POST /render-from-bank/{item_id} (video.py lines 88-125): one call of
\* render_video_from_bank_item, answered with a RenderJob or with HTTP 500.
\* The call is logged with the row as it was before and as it is after.
render_from_bank(item_id, template_type, env) ==
    /\ Len(rlog) < MaxCalls
    /\ LET r == render_video_from_bank_item(bank, renders, item_id, template_type, env)
       IN /\ bank' = r.bank
          /\ renders' = r.renders
          /\ rlog' = Append(rlog,
                 [item_id |-> item_id, template_type |-> template_type,
                  result |-> r.result, searches |-> r.searches,
                  before |-> get_bank_item(bank, item_id),
                  after |-> get_bank_item(r.bank, item_id),
                  submitted |-> IF Len(r.renders) > Len(renders)
                                THEN Some(r.renders[Len(r.renders)].assets) ELSE None,
                  http |-> IF r.result # None THEN 200 ELSE 500])
    /\ UNCHANGED <<jobs, wvars, gvars, pvars, svars, uvars,
                   dup_call, dup_out, audio_call, audio_out>>

\* process_batch_render_job lines 101-118 with the render spelled out: the
\* item is rendered from the bank with the template type of the job ("video"
\* when the payload names none, line 72), its outcome counted, progress written
RenderItem(w, env) ==
    /\ wpc[w] = "item"
    /\ ItemIsApproved(w)
    /\ LET r == render_video_from_bank_item(bank, renders, wids[w][widx[w] + 1], "video", env)
       IN /\ bank' = r.bank
          /\ renders' = r.renders
          /\ IF r.result # None
             THEN wsucc' = [wsucc EXCEPT ![w] = wsucc[w] + 1] /\ UNCHANGED wfail
             ELSE wfail' = [wfail EXCEPT ![w] = wfail[w] + 1] /\ UNCHANGED wsucc
    /\ jobs' = update_batch_job_status(jobs, wjob[w], None,
                   Some(ProgressAfter(widx[w] + 1, Len(wids[w]))), None)
    /\ AdvanceItem(w)
    /\ UNCHANGED <<wjob, wids, gvars, pvars, svars, uvars, qvars>>

\* ------------------------------------------------------ preview render poll

\* max_attempts of auto_render_post_preview
max_attempts == 60

\* check_render_status raises instead of returning a RenderJob
StatusRaised == [status |-> "exception", video_url |-> None]

PreviewUrls == {"u1.mp4", "u2.mp4"}

\* what check_render_status gives: get_render_status keeps the status string of
\* the response ("unknown" when it has none) and a URL only with "succeeded",
\* and the response may carry none; or an exception
StatusAnswers ==
    {[status |-> st, video_url |-> None] :
        st \in {"pending", "rendering", "succeeded", "failed", "error", "unknown"}}
    \cup {[status |-> "succeeded", video_url |-> Some(u)] : u \in PreviewUrls}
    \cup {StatusRaised}

\* lines 110-125: render_video returned a job with a job_id for the next post
\* of the schedule; the locals of the loop are set up
PreviewStart ==
    /\ ppc = "idle"
    /\ Len(pdone) < MaxPosts
    /\ ppc' = "loop"
    /\ attempts' = 0
    /\ status_checks' = 0
    /\ sleeps' = 0
    /\ prior' = {}
    /\ poll_return' = None
    /\ UNCHANGED <<jobs, bank, wvars, gvars, renders, pdone, svars, uvars, qvars>>

\* PollSleep with the loop test of line 126 written attempts <= max_attempts
PollSleepOneMore ==
    /\ ppc = "loop"
    /\ attempts <= max_attempts
    /\ sleeps' = sleeps + 1
    /\ ppc' = "check"
    /\ UNCHANGED <<jobs, bank, wvars, gvars, renders, attempts, status_checks, prior,
                   poll_return, pdone, svars, uvars, qvars>>

\* lines 126-127: the loop test holds, asyncio.sleep(2)
PollSleep ==
    /\ ppc = "loop"
    /\ attempts < max_attempts
    /\ sleeps' = sleeps + 1
    /\ ppc' = "check"
    /\ UNCHANGED <<jobs, bank, wvars, gvars, renders, attempts, status_checks, prior,
                   poll_return, pdone, svars, uvars, qvars>>

\* PollCheck with "error" missing from the failure test of line 135
PollCheckFailedOnly(answer) ==
    /\ ppc = "check"
    /\ status_checks' = status_checks + 1
    /\ IF answer # StatusRaised /\ answer.status = "succeeded" /\ answer.video_url # None
       THEN /\ ppc' = "returned"
            /\ poll_return' = Some([exit |-> "url", value |-> answer.video_url])
            /\ UNCHANGED <<attempts, prior>>
       ELSE IF answer # StatusRaised /\ answer.status \in {"failed"}
       THEN /\ ppc' = "returned"
            /\ poll_return' = Some([exit |-> "render_failed", value |-> None])
            /\ UNCHANGED <<attempts, prior>>
       ELSE /\ attempts' = attempts + 1
            /\ prior' = prior \cup {answer}
            /\ ppc' = "loop"
            /\ UNCHANGED poll_return
    /\ UNCHANGED <<jobs, bank, wvars, gvars, renders, sleeps, pdone, svars, uvars, qvars>>

\* PollCheck with the success test of line 132 asking for a second look: the
\* URL is returned only when the check before gave "succeeded" as well
PollCheckConfirmsSuccess(answer) ==
    /\ ppc = "check"
    /\ status_checks' = status_checks + 1
    /\ IF /\ answer # StatusRaised /\ answer.status = "succeeded" /\ answer.video_url # None
          /\ \E a \in prior : a.status = "succeeded"
       THEN /\ ppc' = "returned"
            /\ poll_return' = Some([exit |-> "url", value |-> answer.video_url])
            /\ UNCHANGED <<attempts, prior>>
       ELSE IF answer # StatusRaised /\ answer.status \in {"failed", "error"}
       THEN /\ ppc' = "returned"
            /\ poll_return' = Some([exit |-> "render_failed", value |-> None])
            /\ UNCHANGED <<attempts, prior>>
       ELSE /\ attempts' = attempts + 1
            /\ prior' = prior \cup {answer}
            /\ ppc' = "loop"
            /\ UNCHANGED poll_return
    /\ UNCHANGED <<jobs, bank, wvars, gvars, renders, sleeps, pdone, svars, uvars, qvars>>

\* lines 128-145: one status check.  "succeeded" with a URL returns the URL
\* (line 134), "failed" and "error" return None (line 137); every other answer
\* and every exception counts one attempt and goes back to the loop test
PollCheck(answer) ==
    /\ ppc = "check"
    /\ status_checks' = status_checks + 1
    /\ IF answer # StatusRaised /\ answer.status = "succeeded" /\ answer.video_url # None
       THEN /\ ppc' = "returned"
            /\ poll_return' = Some([exit |-> "url", value |-> answer.video_url])
            /\ UNCHANGED <<attempts, prior>>
       ELSE IF answer # StatusRaised /\ answer.status \in {"failed", "error"}
       THEN /\ ppc' = "returned"
            /\ poll_return' = Some([exit |-> "render_failed", value |-> None])
            /\ UNCHANGED <<attempts, prior>>
       ELSE /\ attempts' = attempts + 1
            /\ prior' = prior \cup {answer}
            /\ ppc' = "loop"
            /\ UNCHANGED poll_return
    /\ UNCHANGED <<jobs, bank, wvars, gvars, renders, sleeps, pdone, svars, uvars, qvars>>

\* lines 126, 147-148: the loop test fails, the timeout is logged, None returned
PollTimeout ==
    /\ ppc = "loop"
    /\ attempts >= max_attempts
    /\ ppc' = "returned"
    /\ poll_return' = Some([exit |-> "timeout", value |-> None])
    /\ UNCHANGED <<jobs, bank, wvars, gvars, renders, attempts, status_checks, sleeps,
                   prior, pdone, svars, uvars, qvars>>

\* weekly.py lines 44-55: render_all_previews takes what the call returned:
\* a URL is stored as the media_url of the post, None gets the "returned no
\* URL" warning
render_all_previews ==
    /\ ppc = "returned"
    /\ pdone' = Append(pdone,
           [exit |-> poll_return[1].exit,
            returned |-> poll_return[1].value,
            media_url |-> poll_return[1].value,
            logged |-> IF poll_return[1].value # None THEN "Updated post with preview URL"
                       ELSE "Preview render returned no URL"])
    /\ ppc' = "idle"
    /\ UNCHANGED <<jobs, bank, wvars, gvars, renders, attempts, status_checks, sleeps,
                   prior, poll_return, svars, uvars, qvars>>

\* ------------------------------------------------------------- stock search

\* In this part a string is the sequence of its characters.

\* str.lower() on one character, for the capitals of the texts below
LowerChar(c) ==
    CASE c = "A" -> "a"
      [] c = "C" -> "c"
      [] c = "H" -> "h"
      [] c = "L" -> "l"
      [] c = "M" -> "m"
      [] c = "N" -> "n"
      [] c = "O" -> "o"
      [] c = "R" -> "r"
      [] c = "T" -> "t"
      [] c = "W" -> "w"
      [] OTHER -> c

\* str.lower()
lower(str) == [i \in DOMAIN str |-> LowerChar(str[i])]

\* keyword in text: text has the keyword as a substring
Contains(text, keyword) ==
    \E i \in 0..(Len(text) - Len(keyword)) : SubSeq(text, i + 1, i + Len(keyword)) = keyword

\* people_keywords, lines 58-64
people_keywords ==
    {<<"p", "e", "r", "s", "o", "n">>,
     <<"p", "e", "o", "p", "l", "e">>,
     <<"f", "a", "c", "e">>,
     <<"f", "a", "c", "e", "s">>,
     <<"h", "u", "m", "a", "n">>,
     <<"w", "o", "m", "a", "n">>,
     <<"m", "a", "n">>,
     <<"m", "e", "n">>,
     <<"w", "o", "m", "e", "n">>,
     <<"g", "i", "r", "l">>,
     <<"b", "o", "y">>,
     <<"c", "h", "i", "l", "d">>,
     <<"c", "h", "i", "l", "d", "r", "e", "n">>,
     <<"a", "d", "u", "l", "t">>,
     <<"p", "o", "r", "t", "r", "a", "i", "t">>,
     <<"h", "e", "a", "d", "s", "h", "o", "t">>,
     <<"c", "r", "o", "w", "d">>,
     <<"g", "r", "o", "u", "p">>,
     <<"i", "n", "d", "i", "v", "i", "d", "u", "a", "l">>,
     <<"p", "e", "r", "s", "o", "n", "'", "s">>,
     <<"p", "e", "o", "p", "l", "e", "'", "s">>,
     <<"f", "a", "m", "i", "l", "y">>,
     <<"c", "o", "u", "p", "l", "e">>,
     <<"t", "e", "e", "n">>,
     <<"t", "e", "e", "n", "a", "g", "e", "r">>,
     <<"e", "l", "d", "e", "r", "l", "y">>,
     <<"s", "e", "n", "i", "o", "r">>,
     <<"y", "o", "u", "n", "g">>,
     <<"o", "l", "d">>,
     <<"b", "a", "b", "y">>,
     <<"i", "n", "f", "a", "n", "t">>,
     <<"t", "o", "d", "d", "l", "e", "r">>,
     <<"k", "i", "d">>,
     <<"k", "i", "d", "s">>}

\* entries of the "videos" list of a response of the stock API: page URL, id,
\* alt text (or none), the files on offer and the preview image.  Every file
\* link belongs to one video.
StockVideos ==
    {[url |-> <<"/", "s", "e", "a", "/">>, id |-> <<"1">>,
      alt |-> Some(<<"W", "a", "v", "e", "s">>),
      video_files |-> <<[width |-> 1280, link |-> "clip1.mp4"]>>,
      image |-> "img1.jpg"],
     [url |-> <<"/", "r", "u", "n", "/">>, id |-> <<"2">>,
      alt |-> Some(<<"W", "O", "M", "A", "N">>),
      video_files |-> <<[width |-> 1280, link |-> "clip2.mp4"]>>,
      image |-> "img2.jpg"],
     [url |-> <<"/", "f", "a", "c", "e", "/">>, id |-> <<"3">>,
      alt |-> None,
      video_files |-> <<[width |-> 1280, link |-> "clip3.mp4"]>>,
      image |-> "img3.jpg"],
     [url |-> <<"/", "t", "e", "a", "/">>, id |-> <<"4">>,
      alt |-> Some(<<"T", "e", "a">>),
      video_files |-> <<>>,
      image |-> "img4.jpg"],
     [url |-> <<"/", "f", "o", "g", "/">>, id |-> <<"5">>,
      alt |-> Some(<<"R", "o", "m", "a", "n">>),
      video_files |-> <<[width |-> 1280, link |-> "clip5.mp4"]>>,
      image |-> "img5.jpg"],
     [url |-> <<"/", "s", "k", "y", "/">>, id |-> <<"6">>,
      alt |-> Some(<<"H", "a", "n", "d", "s">>),
      video_files |-> <<[width |-> 640, link |-> "clip6_sd.mp4"], [width |-> 1920, link |-> "clip6_hd.mp4"]>>,
      image |-> ""]}

\* the "videos" of a response: up to MaxVideos entries in any order
StockResponses == UNION {[1..n -> StockVideos] : n \in 0..MaxVideos}

\* the arguments of a call and the response it gets
StockCalls ==
    [query : {"wellness", "woman face"}, max_results : 1..MaxResults, data : StockResponses]

\* video_text with the lower() calls of lines 68-69 left out
video_text_case_kept(video) ==
    video.url \o <<" ">> \o video.id \o <<" ">>
        \o (IF video.alt # None THEN video.alt[1] ELSE <<>>)

\* lines 68-70: the lower-cased page URL, id and alt text, joined by blanks
video_text(video) ==
    lower(video.url) \o <<" ">> \o lower(video.id) \o <<" ">>
        \o (IF video.alt # None THEN lower(video.alt[1]) ELSE <<>>)

\* line 73: some people keyword occurs in the text of the video
has_people_keyword(video) ==
    \E keyword \in people_keywords : Contains(video_text(video), keyword)

\* lines 82-83: the widest file, the first of them when several are as wide
best_video(video_files) ==
    video_files[CHOOSE i \in DOMAIN video_files :
        /\ \A k \in DOMAIN video_files : video_files[k].width <= video_files[i].width
        /\ \A k \in 1..(i - 1) : video_files[k].width < video_files[i].width]

\* lines 86-98: the AssetResult of a video (its duration is not kept)
AssetResult(video) ==
    LET link == best_video(video.video_files).link
    IN [id |-> link, video_url |-> link,
        thumbnail_url |-> IF video.image # "" THEN video.image ELSE link]

\* lines 66-102: the loop over the videos of the response, assets being the
\* list built so far
RECURSIVE CollectAssets(_, _, _)
CollectAssets(videos, max_results, assets) ==
    IF videos = <<>> THEN assets
    ELSE LET video == Head(videos)
         IN IF has_people_keyword(video) THEN CollectAssets(Tail(videos), max_results, assets)
            ELSE IF video.video_files = <<>>
                 THEN CollectAssets(Tail(videos), max_results, assets)
            ELSE LET more == Append(assets, AssetResult(video))
                 IN IF Len(more) >= max_results THEN more
                    ELSE CollectAssets(Tail(videos), max_results, more)

\* search_videos, the request answered with a response: the assets returned
search_videos ==
    /\ stock_call # None
    /\ stock_assets = NotCalled
    /\ stock_assets' = [outcome |-> "returned",
                        assets |-> CollectAssets(stock_call.data, stock_call.max_results, <<>>)]
    /\ UNCHANGED <<jobs, bank, wvars, gvars, renders, pvars, stock_call, uvars, qvars>>

\* search_videos, the request failing (lines 106-114): an exception is raised
search_videos_raises ==
    /\ stock_call # None
    /\ stock_assets = NotCalled
    /\ stock_assets' = [outcome |-> "raised", assets |-> <<>>]
    /\ UNCHANGED <<jobs, bank, wvars, gvars, renders, pvars, stock_call, uvars, qvars>>

\* ------------------------------------------------------------ audio picker

\* In this part a mood is the sequence of its characters.

\* the values of AudioMode
AudioModes == {"AUTO_STOCK_ONLY", "AUTO_STOCK_WITH_TIKTOK_HINTS", "MUTED_FOR_PLATFORM_MUSIC"}

\* values of the AUDIO_MODE setting: the three modes and a string that is none
AudioModeSettings == AudioModes \cup {"muted"}

\* _get_audio_mode reading a setting that does not exist: always the default
_get_audio_mode_default(mode_str) == "AUTO_STOCK_WITH_TIKTOK_HINTS"

\* _get_audio_mode: the mode of the setting, the default for an invalid one
_get_audio_mode(mode_str) ==
    IF mode_str \in AudioModes THEN mode_str ELSE "AUTO_STOCK_WITH_TIKTOK_HINTS"

\* rows of audio_tracks: the moods of the seed, one stored with a capital,
\* shorter and longer tracks
AudioTracks == {
    [id |-> 1, mood |-> <<"c", "a", "l", "m">>, length_seconds |-> 20],
    [id |-> 2, mood |-> <<"c", "a", "l", "m">>, length_seconds |-> 120],
    [id |-> 3, mood |-> <<"e", "n", "e", "r", "g", "e", "t", "i", "c">>, length_seconds |-> 90],
    [id |-> 4, mood |-> <<"e", "n", "e", "r", "g", "e", "t", "i", "c">>, length_seconds |-> 25],
    [id |-> 5, mood |-> <<"C", "a", "l", "m">>, length_seconds |-> 60] }

\* the audio_tracks table
TrackTables == {table \in SUBSET AudioTracks : Cardinality(table) <= MaxTracks}

\* values of music_mood: None, "", blanks, "calm" in three casings and within
\* blanks, "energetic", and a mood no track has
MusicMoods ==
    {None, Some(<<>>), Some(<<" ", " ">>),
     Some(<<"c", "a", "l", "m">>), Some(<<"C", "a", "l", "m">>),
     Some(<<"C", "A", "L", "M">>), Some(<<" ", "c", "a", "l", "m", " ">>),
     Some(<<"e", "n", "e", "r", "g", "e", "t", "i", "c">>),
     Some(<<"w", "a", "r", "m">>)}

\* the setting, the arguments and the table of a call
AudioCalls ==
    [mode : AudioModeSettings, music_mood : MusicMoods,
     estimated_length_seconds : {15, 30, 100, 200}, tracks : TrackTables]

\* str.strip() for blanks
strip(str) ==
    LET inked == {i \in DOMAIN str : str[i] # " "}
    IN IF inked = {} THEN <<>>
       ELSE SubSeq(str, CHOOSE i \in inked : \A k \in inked : i <= k,
                        CHOOSE i \in inked : \A k \in inked : i >= k)

\* line 55: (music_mood or "").strip().lower()
normalized_mood(music_mood) ==
    lower(strip(IF music_mood = None THEN <<>> ELSE music_mood[1]))

\* candidate_tracks without the fallback of lines 62-64
candidate_tracks_no_fallback(table, mood) ==
    IF mood = <<>> THEN [tracks |-> table, queries |-> 1]
    ELSE [tracks |-> {t \in table : t.mood = mood}, queries |-> 1]

\* lines 53-64: the tracks whose stored mood is the normalized mood (the
\* comparison of the database, which keeps letter case), every track when no
\* mood is asked for or none has it; and the queries made
candidate_tracks(table, mood) ==
    IF mood = <<>> THEN [tracks |-> table, queries |-> 1]
    ELSE IF {t \in table : t.mood = mood} # {}
         THEN [tracks |-> {t \in table : t.mood = mood}, queries |-> 1]
    ELSE [tracks |-> table, queries |-> 2]

\* suitable_tracks without the preference of line 71
suitable_tracks_any(tracks, estimated_length_seconds) == tracks

\* lines 71-73: the tracks that are long enough, all of them when none is
suitable_tracks(tracks, estimated_length_seconds) ==
    IF {t \in tracks : t.length_seconds >= estimated_length_seconds} # {}
    THEN {t \in tracks : t.length_seconds >= estimated_length_seconds}
    ELSE tracks

\* what a call can return, with the queries it made: None without a query in
\* the muted mode, None for an empty table, else any of the suitable tracks
\* (random.choice)
pick_results(call) ==
    LET found == candidate_tracks(call.tracks, normalized_mood(call.music_mood))
    IN IF _get_audio_mode(call.mode) = "MUTED_FOR_PLATFORM_MUSIC"
       THEN {[outcome |-> "returned", track |-> None, queries |-> 0]}
       ELSE IF found.tracks = {}
       THEN {[outcome |-> "returned", track |-> None, queries |-> found.queries]}
       ELSE {[outcome |-> "returned", track |-> Some(t), queries |-> found.queries] :
                t \in suitable_tracks(found.tracks, call.estimated_length_seconds)}

\* one call of pick_track_for_plan
pick_track_for_plan ==
    /\ audio_call # None
    /\ audio_out = NotCalled
    /\ audio_out' \in pick_results(audio_call)
    /\ UNCHANGED <<jobs, bank, wvars, gvars, renders, pvars, svars, uvars,
                   dup_call, dup_out, audio_call, rlog>>

\* ------------------------------------------------------------ render submit

\* In this part a URL is the sequence of its parts: the scheme with "://" or a
\* leading "/", the host, the port, the path, the extension.  "" is <<>>.

\* asset ids a render request can carry
AssetUrls ==
    {<<>>,
     <<"https://", "videos.pexels.com", "/clip1", ".mp4">>,
     <<"http://", "localhost", ":8000", "/api/assets/videos/a", ".mp4">>,
     <<"http://", "127.0.0.1", ":8000", "/static/uploads/a", ".png">>,
     <<"https://", "LOCALHOST", "/a", ".mp4">>,
     <<"/", "static/uploads/a", ".png">>,
     <<"a", ".PNG">>,
     <<"clip", ".mp4">>,
     <<"file://", "/tmp/clip", ".mp4">>}

\* values of API_BASE_URL: the default, a public one written with a trailing
\* slash, and one written without a scheme
ApiBaseUrls ==
    {<<"http://", "localhost", ":8000">>,
     <<"https://", "app.example.com", "/">>,
     <<"app.example.com">>}

\* the request of a call, API_BASE_URL and the template id of the settings
SubmitCalls ==
    [assets : UNION {[1..n -> AssetUrls] : n \in 1..MaxAssets},
     api_base : ApiBaseUrls,
     template_id : {"", "template-1"}]

\* str.lower() on the parts above
LowerPart(part) ==
    CASE part = "LOCALHOST" -> "localhost"
      [] part = ".PNG" -> ".png"
      [] OTHER -> part

\* API_BASE_URL.rstrip('/')
rstrip_slash(url) ==
    IF url # <<>> /\ url[Len(url)] = "/" THEN SubSeq(url, 1, Len(url) - 1) ELSE url

\* url.startswith(('http://', 'https://'))
is_absolute(url) == url # <<>> /\ url[1] \in {"http://", "https://"}

\* url.lower().endswith(ext) for one of the extensions
ends_with(url, extensions) == url # <<>> /\ LowerPart(url[Len(url)]) \in extensions

\* lines 61-80: the URL made of one non-empty asset id
absolute_url(url, api_base) ==
    IF is_absolute(url) THEN url
    ELSE IF url[1] = "/" THEN api_base \o url
    ELSE IF ends_with(url, {".png", ".jpg", ".jpeg", ".gif", ".webp"})
         THEN api_base \o <<"/api/assets/images/">> \o url
    ELSE IF ends_with(url, {".mp4", ".mov", ".avi", ".webm"})
         THEN api_base \o <<"/api/assets/videos/">> \o url
    ELSE api_base \o <<"/api/assets/images/">> \o url

\* lines 104-111: 'localhost' or '127.0.0.1' occurs in the lower-cased URL;
\* the code logs a warning for it and goes on
warns_localhost(url) ==
    \E i \in DOMAIN url : LowerPart(url[i]) \in {"localhost", "127.0.0.1"}

\* lines 40-90: the checks before the request.  A ValueError for an empty
\* template id, an empty asset id or a converted URL that is not absolute;
\* else the URLs the request is built from.
prepare_render(call) ==
    LET api_base == rstrip_slash(call.api_base)
        urls == [i \in DOMAIN call.assets |-> absolute_url(call.assets[i], api_base)]
    IN IF call.template_id = "" THEN [outcome |-> "ValueError", urls |-> <<>>]
       ELSE IF \E i \in DOMAIN call.assets : call.assets[i] = <<>>
            THEN [outcome |-> "ValueError", urls |-> <<>>]
       ELSE IF \E i \in DOMAIN urls : ~is_absolute(urls[i])
            THEN [outcome |-> "ValueError", urls |-> <<>>]
       ELSE [outcome |-> "posted", urls |-> urls]

\* start_render: the checks, then the POST of lines 255-262 and what comes of
\* it (a RenderJob, or an exception)
start_render(answer) ==
    /\ submit_call # None
    /\ submit_out = NotCalled
    /\ LET prepared == prepare_render(submit_call)
       IN submit_out' = [outcome |-> prepared.outcome, assets |-> prepared.urls,
                         job |-> IF prepared.outcome = "posted" THEN answer
                                 ELSE SubmitRaised]
    /\ UNCHANGED <<jobs, bank, wvars, gvars, renders, pvars, svars, submit_call, qvars>>

\* ------------------------------------------------------------ specification

\* the bank before any batch: an approved recent item, and an old draft
InitialBank == <<
    BankRow([title |-> <<"Drink", "Water">>, script |-> <<"Drink", "Water", "daily">>,
             content_pillar |-> "education", topic_cluster |-> Some("energy"),
             status |-> "approved", recent |-> TRUE], NoMedia),
    BankRow([title |-> <<"old", "habits">>, script |-> <<"old", "habits", "return">>,
             content_pillar |-> "routine", topic_cluster |-> None,
             status |-> "draft", recent |-> FALSE], NoMedia) >>

\* no job yet, no worker run, no batch-generate request
InitQueue ==
    /\ jobs = <<>>
    /\ wpc = [w \in Workers |-> "idle"]
    /\ wjob = [w \in Workers |-> 0]
    /\ wids = [w \in Workers |-> <<>>]
    /\ widx = [w \in Workers |-> 0]
    /\ wsucc = [w \in Workers |-> 0]
    /\ wfail = [w \in Workers |-> 0]
    /\ gpc = "idle"
    /\ gjob = 0
    /\ greq = [count |-> 1, content_pillars |-> <<>>, topic_cluster |-> None,
               similarity_threshold |-> DefaultThreshold]
    /\ gout = <<>>
    /\ created_ids = <<>>
    /\ failed_count = 0
    /\ duplicate_count = 0
    /\ renders = <<>>

\* no preview render under way
InitPoll ==
    /\ ppc = "idle"
    /\ attempts = 0
    /\ status_checks = 0
    /\ sleeps = 0
    /\ prior = {}
    /\ poll_return = None
    /\ pdone = <<>>

\* no search_videos call
InitStock ==
    /\ stock_call = None
    /\ stock_assets = NotCalled

\* no start_render call
InitSubmit ==
    /\ submit_call = None
    /\ submit_out = NotCalled

\* no call of the duplicate filter, of the audio picker or of the render from
\* the bank on their own
InitCalls ==
    /\ dup_call = None
    /\ dup_out = NotCalled
    /\ audio_call = None
    /\ audio_out = NotCalled
    /\ rlog = <<>>

Init ==
    /\ InitQueue
    /\ bank = InitialBank
    /\ InitPoll
    /\ InitStock
    /\ InitSubmit
    /\ InitCalls

\* The render queue: the batch-render endpoint and the worker runs, every
\* database call answering.
Next ==
    \/ \E content_ids \in ContentIdLists : batch_render_videos(content_ids)
    \/ \E w \in Workers : WorkerPoll(w)
    \/ \E w \in Workers, job_id \in 1..MaxJobs : WorkerJobId(w, job_id)
    \/ \E w \in Workers : LoadJob(w)
    \/ \E w \in Workers : MarkRunning(w)
    \/ \E w \in Workers : ItemSkipped(w)
    \/ \E w \in Workers, outcome \in RenderOutcomes : ItemRendered(w, outcome)
    \/ \E w \in Workers : FinishJob(w)

Spec == Init /\ [][Next]_vars

\* The render queue with database calls that can raise inside a run.
FaultNext ==
    \/ Next
    \/ \E w \in Workers : JobException(w)

SpecFault == Init /\ [][FaultNext]_vars

\* a bank of approved items: two with a voiceover, one without; none has been
\* rendered from
RenderBank == <<
    BankRow([title |-> <<"Drink", "Water">>, script |-> <<"Drink", "Water", "daily">>,
             content_pillar |-> "education", topic_cluster |-> Some("energy"),
             status |-> "approved", recent |-> TRUE],
            [NoMedia EXCEPT !.voiceover_url = Some("vo1.mp3")]),
    BankRow([title |-> <<"Drink", "Water">>, script |-> <<"Sleep", "WELL", "tonight">>,
             content_pillar |-> "education", topic_cluster |-> Some("energy"),
             status |-> "approved", recent |-> TRUE],
            [NoMedia EXCEPT !.voiceover_url = Some("vo2.mp3")]),
    BankRow([title |-> <<"walk", "outside">>, script |-> <<"walk", "outside", "today">>,
             content_pillar |-> "routine", topic_cluster |-> None,
             status |-> "approved", recent |-> TRUE], NoMedia) >>

InitRender ==
    /\ InitQueue
    /\ bank = RenderBank
    /\ InitPoll
    /\ InitStock
    /\ InitSubmit
    /\ InitCalls

\* the worker run of the render specification
RenderWorkers == {"w1"}

\* One run of the worker over a batch-render job, the render of each item
\* spelled out with the answers of the TTS, stock and compositor services.
RenderNext ==
    \/ \E content_ids \in ContentIdLists : batch_render_videos(content_ids)
    \/ \E w \in RenderWorkers : WorkerPoll(w)
    \/ \E w \in RenderWorkers : LoadJob(w)
    \/ \E w \in RenderWorkers : MarkRunning(w)
    \/ \E w \in RenderWorkers, env \in RenderEnvs : RenderItem(w, env)
    \/ \E w \in RenderWorkers : FinishJob(w)

SpecRender == InitRender /\ [][RenderNext]_vars

\* The preview renders of a weekly schedule: for one post after the other the
\* poll loop of auto_render_post_preview, from the submitted render on, and
\* what render_all_previews does with its result.
PollNext ==
    \/ PreviewStart
    \/ PollSleep
    \/ \E answer \in StatusAnswers : PollCheck(answer)
    \/ PollTimeout
    \/ render_all_previews

SpecPoll == Init /\ [][PollNext]_vars

\* the event loop resumes the coroutine after every sleep and every answer
SpecPollFair == SpecPoll /\ WF_vars(PollNext)

\* a search_videos call about to be made
InitStockCall ==
    /\ InitQueue
    /\ bank = InitialBank
    /\ InitPoll
    /\ stock_call \in StockCalls
    /\ stock_assets = NotCalled
    /\ InitSubmit
    /\ InitCalls

\* One search_videos call, for every query, max_results and response.
StockNext ==
    \/ search_videos
    \/ search_videos_raises

SpecStock == InitStockCall /\ [][StockNext]_vars

\* a start_render call about to be made
InitSubmitCall ==
    /\ InitQueue
    /\ bank = InitialBank
    /\ InitPoll
    /\ InitStock
    /\ submit_call \in SubmitCalls
    /\ submit_out = NotCalled
    /\ InitCalls

\* One start_render call, for every request and setting.
SubmitNext == \E answer \in SubmitAnswers : start_render(answer)

SpecSubmit == InitSubmitCall /\ [][SubmitNext]_vars

\* a bank of an approved item with a voiceover, an approved one without and a
\* draft; none has been rendered from, none has assets
RetryBank == <<
    BankRow([title |-> <<"Drink", "Water">>, script |-> <<"Drink", "Water", "daily">>,
             content_pillar |-> "education", topic_cluster |-> Some("energy"),
             status |-> "approved", recent |-> TRUE],
            [NoMedia EXCEPT !.voiceover_url = Some("vo1.mp3")]),
    BankRow([title |-> <<"walk", "outside">>, script |-> <<"walk", "outside", "today">>,
             content_pillar |-> "routine", topic_cluster |-> None,
             status |-> "approved", recent |-> TRUE], NoMedia),
    BankRow([title |-> <<"Sleep", "WELL">>, script |-> <<"Sleep", "WELL", "tonight">>,
             content_pillar |-> "education", topic_cluster |-> None,
             status |-> "draft", recent |-> TRUE],
            [NoMedia EXCEPT !.voiceover_url = Some("vo3.mp3")]) >>

InitRetry ==
    /\ InitQueue
    /\ bank = RetryBank
    /\ InitPoll
    /\ InitStock
    /\ InitSubmit
    /\ InitCalls

\* Render-from-bank requests, one after the other, for the rows of the bank
\* and an id it does not have, either template type and every answer of the
\* stock search and the compositor.
RetryNext ==
    \E item_id \in 1..(Len(RetryBank) + 1), template_type \in {"video", "image"},
       env \in EndpointEnvs : render_from_bank(item_id, template_type, env)

SpecRetry == InitRetry /\ [][RetryNext]_vars

\* a call of _is_near_duplicate about to be made
InitDupCall ==
    /\ InitQueue
    /\ bank \in DupBanks
    /\ InitPoll
    /\ InitStock
    /\ InitSubmit
    /\ dup_call \in DupCalls
    /\ dup_out = NotCalled
    /\ audio_call = None
    /\ audio_out = NotCalled
    /\ rlog = <<>>

\* One call of the duplicate filter, for every table and every argument.
DupNext == is_near_duplicate_call

SpecDup == InitDupCall /\ [][DupNext]_vars

\* a call of pick_track_for_plan about to be made
InitAudioCall ==
    /\ InitQueue
    /\ bank = InitialBank
    /\ InitPoll
    /\ InitStock
    /\ InitSubmit
    /\ dup_call = None
    /\ dup_out = NotCalled
    /\ audio_call \in AudioCalls
    /\ audio_out = NotCalled
    /\ rlog = <<>>

\* One call of the audio picker, for every setting, argument and table.
AudioNext == pick_track_for_plan

SpecAudio == InitAudioCall /\ [][AudioNext]_vars

\* Batch content generation: one batch-generate request from its submission
\* to its answer, and worker runs started with --job-id meanwhile.
GenNext ==
    \/ \E req \in Requests : batch_generate_content(req)
    \/ GenerationThrows
    \/ \E plan \in Plans : GenDuplicate(plan)
    \/ \E plan \in Plans : GenCreated(plan)
    \/ \E plan \in Plans : GenInsertThrows(plan)
    \/ GenSucceeded
    \/ GenRaised
    \/ \E w \in Workers, job_id \in 1..MaxJobs : WorkerJobId(w, job_id)
    \/ \E w \in Workers : LoadJob(w)

SpecGen == Init /\ [][GenNext]_vars

\* ------------------------------------------------------------------ claims

\* a step of worker run w that calls update_batch_job_status on its job
UpdatesJob(w) ==
    \/ MarkRunning(w)
    \/ \E outcome \in RenderOutcomes : ItemRendered(w, outcome)
    \/ FinishJob(w)
    \/ JobException(w)

\* a step of worker run w that finishes the handling of one work item
HandlesItem(w) ==
    \/ ItemSkipped(w)
    \/ \E outcome \in RenderOutcomes : ItemRendered(w, outcome)

\* round(100 * done / total), halves up
RoundedProgress(done, total) == (200 * done + total) \div (2 * total)

\* C1: in every reachable state every job row has completed_at set if and
\* only if its status is succeeded or failed.
C1_CompletedIffTerminal ==
    \A j \in DOMAIN jobs :
        (jobs[j].completed_at # None) <=> (jobs[j].status \in Terminal)

\* C2: a job whose status is succeeded or failed keeps that status in every
\* later step.
C2_TerminalStatusIsFinal ==
    [][\A j \in DOMAIN jobs :
          jobs[j].status \in Terminal => jobs'[j].status = jobs[j].status]_vars

\* C3: a call of update_batch_job_status on a job that is already succeeded or
\* failed leaves the row as it is and returns the "job already terminal" error.
C3_UpdateOfTerminalIsNoOp ==
    [][\A w \in Workers :
          (UpdatesJob(w) /\ jobs[wjob[w]].status \in Terminal)
              => /\ jobs'[wjob[w]] = jobs[wjob[w]]
                 /\ update_batch_job_status_result(jobs, wjob[w]) = "job already terminal"]_vars

\* C4: no two worker runs have accepted the same job at the same time: a run
\* on a job another run is processing is rejected, and two runs that polled
\* the same pending job do not both go on.
C4_OneRunPerJob ==
    \A w1, w2 \in Workers :
        (w1 # w2 /\ wpc[w1] \in {"mark", "item", "finish"}
                 /\ wpc[w2] \in {"mark", "item", "finish"})
            => wjob[w1] # wjob[w2]

\* C5: from one step to the next, the progress of a job that is and stays
\* running does not decrease.
C5_ProgressMonotoneWhileRunning ==
    [][\A j \in DOMAIN jobs :
          (jobs[j].status = "running" /\ jobs'[j].status = "running")
              => jobs'[j].progress >= jobs[j].progress]_vars

\* C6: every job whose status is succeeded or failed has progress 100.
C6_TerminalProgressIs100 ==
    \A j \in DOMAIN jobs : jobs[j].status \in Terminal => jobs[j].progress = 100

\* C7: when a run completes a job of N items of which k were rendered, the row
\* is failed if k = 0, succeeded with the error of the N-k failures if
\* 0 < k < N, and succeeded with no error if k = N.
C7_FinalStatusFollowsCounts ==
    [][\A w \in Workers :
          FinishJob(w) =>
              LET job == jobs'[wjob[w]]
                  N == Len(wids[w])
                  k == wsucc[w]
              IN /\ k = 0 => job.status = "failed"
                 /\ (0 < k /\ k < N) =>
                        job.status = "succeeded" /\ job.error = ErrPartial(N - k, N)
                 /\ k = N => job.status = "succeeded" /\ job.error = None]_vars

\* C8: when the batch-generate request is answered and text generation threw
\* for every item, the job is failed.
C8_AllItemsFailedIsFailed ==
    (gpc = "done" /\ \A i \in DOMAIN gout : gout[i].kind = "generation_failed")
        => jobs[gjob].status = "failed"

\* the items of the run whose text generation did not throw
NotThrown == {i \in DOMAIN gout : gout[i].kind # "generation_failed"}

\* the items of the run that were inserted, in generation order
CreatedItems == SelectSeq([i \in DOMAIN gout |-> i], LAMBDA i : gout[i].kind = "created")

\* the job of the request ended succeeded with progress 100
GenJobSucceeded == jobs[gjob].status = "succeeded" /\ jobs[gjob].progress = 100

\* C9 as claimed: when the request is answered and text generation threw for a
\* proper subset of the items, every item was attempted, every item that did
\* not throw is persisted, and the job is succeeded with progress 100.
C9_OthersAllPersisted ==
    (gpc = "done" /\ NotThrown # {})
        => /\ Len(gout) = greq.count
           /\ \A i \in NotThrown : gout[i].kind = "created"
           /\ GenJobSucceeded

\* C9 as amended: when the request is answered and text generation threw for
\* a proper subset of the items, every item was attempted in order; every item
\* that did not throw is persisted with its own hook and script, in generation
\* order, unless it was skipped as a near-duplicate or its insert raised; the
\* throwing items and the failed inserts are counted as failed; and the job
\* is succeeded with progress 100.
C9_FailureIsolation ==
    (gpc = "done" /\ NotThrown # {})
        => /\ Len(gout) = greq.count
           /\ Len(created_ids) = Len(CreatedItems)
           /\ \A n \in DOMAIN created_ids :
                 /\ created_ids[n] \in DOMAIN bank
                 /\ bank[created_ids[n]].title = gout[CreatedItems[n]].plan[1].hook
                 /\ bank[created_ids[n]].script = Script(gout[CreatedItems[n]].plan[1])
                 /\ \A m \in DOMAIN created_ids : m < n => created_ids[m] < created_ids[n]
           /\ \A i \in NotThrown :
                 \/ gout[i].kind = "created"
                 \/ /\ gout[i].kind = "duplicate"
                    /\ _is_near_duplicate(bank, gout[i].plan[1].hook, Script(gout[i].plan[1]),
                                          PillarOf(greq, i - 1), greq.topic_cluster,
                                          greq.similarity_threshold)
                 \/ gout[i].kind = "insert_failed"
           /\ failed_count = Cardinality({i \in DOMAIN gout :
                                 gout[i].kind \in {"generation_failed", "insert_failed"}})
           /\ GenJobSucceeded

\* C9 witness: a request of 3 items is answered; the text generation of
\* item 2 threw, items 1 and 3 are persisted, the job is succeeded at 100.
C9_Witness ==
    /\ gpc = "done"
    /\ greq.count = 3
    /\ gout[1].kind = "created"
    /\ gout[2].kind = "generation_failed"
    /\ gout[3].kind = "created"
    /\ Len(created_ids) = 2
    /\ GenJobSucceeded

\* C10: after every handled work item, whatever its outcome, the stored
\* progress is round(100 * itemsProcessed / totalItems).
C10_ProgressAfterEveryItem ==
    [][\A w \in Workers :
          HandlesItem(w) =>
              jobs'[wjob[w]].progress = RoundedProgress(widx[w] + 1, Len(wids[w]))]_vars

\* the item worker run w is handling
CurrentItem(w) == wids[w][widx[w] + 1]

\* a step of worker run w in which a render request of its item is submitted
\* and the outside world answers as env
SubmitsRender(w, env) ==
    /\ RenderItem(w, env)
    /\ Len(renders') = Len(renders) + 1

\* C11: when the render of an item is submitted, the submit response is
\* pending or rendering and the render later reaches succeeded with a URL,
\* the handling of the item ends with that URL persisted on the item and the
\* item counted as succeeded.
C11_WaitsForTerminalResult ==
    [][\A w \in Workers, env \in RenderEnvs :
          (/\ SubmitsRender(w, env)
           /\ env.submit.status \in {"pending", "rendering"}
           /\ env.terminal.status = "succeeded" /\ env.terminal.video_url # None)
              => /\ bank'[CurrentItem(w)].rendered_video_url = env.terminal.video_url
                 /\ wsucc'[w] = wsucc[w] + 1
                 /\ wfail'[w] = wfail[w]]_vars

\* C12: of the posts whose preview render was polled, one that timed out and
\* one whose render reported failed or error differ in what the poll loop
\* returned and in what its caller recorded for them.
C12_TimeoutDistinctFromFailure ==
    \A i, k \in DOMAIN pdone :
        (pdone[i].exit = "timeout" /\ pdone[k].exit = "render_failed")
            => /\ pdone[i].returned # pdone[k].returned
               /\ pdone[i].logged # pdone[k].logged

\* a status of succeeded that carries no URL
SucceededWithoutUrl == [status |-> "succeeded", video_url |-> None]

\* C13, the poll loop: a status check that gives succeeded without a URL
\* leaves the loop polling.
C13_PollKeepsPolling ==
    [][PollCheck(SucceededWithoutUrl) => (ppc' = "loop" /\ poll_return' = None)]_vars

\* C13: a status of succeeded without a URL settles nothing: the poll loop
\* goes on polling after it, and a bank item whose render was answered with it
\* is counted neither as succeeded nor as failed and its last_render_status
\* stays pending.
C13_SucceededWithoutUrlIsPending ==
    [][/\ PollCheck(SucceededWithoutUrl) => (ppc' = "loop" /\ poll_return' = None)
       /\ \A w \in Workers, env \in RenderEnvs :
             (SubmitsRender(w, env) /\ env.submit = SucceededWithoutUrl)
                 => /\ bank'[CurrentItem(w)].last_render_status = Some("pending")
                    /\ wsucc'[w] = wsucc[w]
                    /\ wfail'[w] = wfail[w]]_vars

\* the answers of a render that is still under way
StillRendering ==
    {[status |-> "pending", video_url |-> None], [status |-> "rendering", video_url |-> None]}

\* C14: when every status polled so far was pending or rendering and the next
\* check gives succeeded with a URL, the loop returns that URL at this check,
\* which is check number attempts + 1 <= max_attempts; after a return no
\* further check is made.
C14_ResolvesAtFirstSuccess ==
    [][/\ \A answer \in StatusAnswers :
             (/\ PollCheck(answer)
              /\ prior \subseteq StillRendering
              /\ answer.status = "succeeded" /\ answer.video_url # None)
                 => /\ ppc' = "returned"
                    /\ poll_return' = Some([exit |-> "url", value |-> answer.video_url])
                    /\ status_checks' = attempts + 1
                    /\ status_checks' <= max_attempts
       /\ ppc = "returned" => status_checks' = status_checks]_vars

\* C14 witness: [pending, pending, succeeded + u1.mp4] has resolved to u1.mp4
\* after 3 checks.
C14_Witness ==
    /\ ppc = "returned"
    /\ poll_return = Some([exit |-> "url", value |-> Some("u1.mp4")])
    /\ prior = {[status |-> "pending", video_url |-> None]}
    /\ attempts = 2
    /\ status_checks = 3

\* C15: a status check that gives failed or error makes the loop return at
\* that check, and after this return no status check and no sleep is made.
C15_FailureReturnsAtOnce ==
    [][/\ \A answer \in StatusAnswers :
             (PollCheck(answer) /\ answer.status \in {"failed", "error"})
                 => /\ ppc' = "returned"
                    /\ poll_return' = Some([exit |-> "render_failed", value |-> None])
       /\ (ppc = "returned" /\ poll_return = Some([exit |-> "render_failed", value |-> None]))
             => (status_checks' = status_checks /\ sleeps' = sleeps)]_vars

\* C15 witness: the second check reported failed or error and the loop has
\* returned after 2 sleeps and 2 checks, and the caller has taken the result.
C15_Witness ==
    /\ ppc = "idle"
    /\ Len(pdone) = 1
    /\ pdone[1].exit = "render_failed"
    /\ prior = {[status |-> "rendering", video_url |-> None]}
    /\ status_checks = 2
    /\ sleeps = 2

\* C16: the loop never makes more than max_attempts status checks, and every
\* poll that has started returns.
C16_PollTerminates ==
    /\ [](status_checks <= max_attempts)
    /\ (ppc \in {"loop", "check"}) ~> (ppc = "returned")

\* C16 witness: a poll in which every check raised or gave an unknown status
\* has returned by timeout after max_attempts checks.
C16_Witness ==
    /\ ppc = "returned"
    /\ poll_return = Some([exit |-> "timeout", value |-> None])
    /\ prior = {StatusRaised, [status |-> "unknown", video_url |-> None]}
    /\ status_checks = max_attempts

\* the elements of a sequence
Range(seq) == {seq[i] : i \in DOMAIN seq}

\* the clips the stock search offers an item under the answers env
Offered(env) ==
    IF env.results = Raised THEN {}
    ELSE IF env.results # <<>> THEN Range(env.results)
    ELSE IF env.fallback = Raised THEN {}
    ELSE Range(env.fallback)

\* the assets stored on row r of bank b
AssetsOf(b, r) ==
    (IF b[r].primary_asset_url # None THEN {b[r].primary_asset_url[1]} ELSE {})
    \cup (IF b[r].secondary_asset_url # None THEN {b[r].secondary_asset_url[1]} ELSE {})

\* the assets selected for the items worker run w has handled so far
UsedEarlier(w) == UNION {AssetsOf(bank, wids[w][k]) : k \in 1..widx[w]}

\* C17: when visuals are selected for an item of a run, an asset selected for
\* an earlier item of the run is selected again only if every clip on offer
\* that no earlier item used is selected as well (the pool is exhausted), and
\* then the item goes on to its render.
C17_NoReuseWhileUnusedOffered ==
    [][\A w \in Workers, env \in RenderEnvs :
          (/\ RenderItem(w, env)
           /\ AssetsOf(bank, CurrentItem(w)) = {}
           /\ AssetsOf(bank', CurrentItem(w)) # {})
              => LET selected == AssetsOf(bank', CurrentItem(w))
                 IN /\ (selected \cap UsedEarlier(w) # {})
                           => (Offered(env) \ UsedEarlier(w)) \subseteq selected
                    /\ Len(renders') = Len(renders) + 1]_vars

\* C20: an item without a voiceover, no TTS service being configured, is
\* still given its visuals and its render is submitted whenever the stock
\* search offers a clip; it is not failed for want of a voiceover.
C20_RendersWithoutVoiceover ==
    [][\A w \in Workers, env \in RenderEnvs :
          (/\ RenderItem(w, env)
           /\ TTS_API_URL = None
           /\ bank[CurrentItem(w)].voiceover_url = None
           /\ Offered(env) # {})
              => /\ AssetsOf(bank', CurrentItem(w)) # {}
                 /\ Len(renders') = Len(renders) + 1
                 /\ bank'[CurrentItem(w)].last_render_status
                        # Some("failed: voiceover_generation_failed")]_vars

\* the metadata texts of a video of a response: page URL, id and alt text
MetadataTexts(video) ==
    {video.url, video.id} \cup (IF video.alt # None THEN {video.alt[1]} ELSE {})

\* some metadata text of the video has a deny-listed term in it, in any case
IsDenied(video) ==
    \E text \in MetadataTexts(video), term \in people_keywords :
        Contains(lower(text), term)

\* the videos of the response that asset was made from
SourcesOf(asset) ==
    {video \in Range(stock_call.data) :
        \E i \in DOMAIN video.video_files : video.video_files[i].link = asset.video_url}

\* C18: whatever the query and the response, no asset search_videos returns
\* comes from a video whose page URL, id or alt text contains a term of the
\* people deny-list.
C18_NoDeniedAssetReturned ==
    stock_assets.outcome = "returned"
        => \A i \in DOMAIN stock_assets.assets :
               \A video \in SourcesOf(stock_assets.assets[i]) : ~IsDenied(video)

\* C18 witness: a response of a "WOMAN" video, a clean one and a "/face/"
\* one, in this order, was answered with the clean one alone.
C18_Witness ==
    /\ stock_assets.outcome = "returned"
    /\ stock_call.max_results = 2
    /\ Len(stock_call.data) = 3
    /\ stock_call.data[1].alt = Some(<<"W", "O", "M", "A", "N">>)
    /\ stock_call.data[2].alt = Some(<<"W", "a", "v", "e", "s">>)
    /\ stock_call.data[3].url = <<"/", "f", "a", "c", "e", "/">>
    /\ Len(stock_assets.assets) = 1
    /\ stock_assets.assets[1].video_url = "clip1.mp4"

\* a publicly fetchable absolute URL: http or https, and not on this machine
PubliclyFetchable(url) ==
    /\ url # <<>>
    /\ url[1] \in {"http://", "https://"}
    /\ \A i \in DOMAIN url : LowerPart(url[i]) \notin {"localhost", "127.0.0.1"}

\* C19: start_render sends the render request only if every asset URL of the
\* request is a publicly fetchable absolute URL; with an asset URL that is
\* empty, a local path or a localhost address it raises before any request.
C19_OnlyPublicUrlsSubmitted ==
    submit_out.outcome = "posted"
        => \A i \in DOMAIN submit_call.assets : PubliclyFetchable(submit_call.assets[i])

\* the rows of the table the duplicate check of the call compares with: recent,
\* of the pillar of the call and, when the call names a cluster, of that cluster
PoolOf(call) ==
    {i \in DOMAIN bank :
        /\ bank[i].recent
        /\ bank[i].content_pillar = call.content_pillar
        /\ (call.topic_cluster = None \/ bank[i].topic_cluster = call.topic_cluster)}

\* C21 as claimed: when a row of the comparison pool has the new title, which
\* is not empty, the call returns true for every threshold <= 1.0.
C21_IdenticalTitleUpToOne ==
    (/\ dup_out.outcome = "returned"
     /\ dup_call.new_title # <<>>
     /\ \E i \in PoolOf(dup_call) : bank[i].title = dup_call.new_title
     /\ dup_call.similarity_threshold <= 10)
        => dup_out.value = TRUE

\* C21 as amended: when a row of the comparison pool has the new title, which
\* has at least one word, the call returns true for every threshold < 1.0.
C21_IdenticalTitleBelowOne ==
    (/\ dup_out.outcome = "returned"
     /\ dup_call.new_title # <<>>
     /\ \E i \in PoolOf(dup_call) : bank[i].title = dup_call.new_title
     /\ dup_call.similarity_threshold < 10)
        => dup_out.value = TRUE

\* C21 witness: threshold 0.9, a pool row with the title of the call and a
\* script that shares no word with the new script: the call returned true.
C21_Witness ==
    /\ dup_out.outcome = "returned"
    /\ dup_out.value = TRUE
    /\ dup_call.similarity_threshold = 9
    /\ dup_call.new_title = <<"drink", "water">>
    /\ dup_call.new_script = <<"Drink", "Water", "daily">>
    /\ dup_call.content_pillar = "routine"
    /\ Len(bank) = 1
    /\ bank[1].title = <<"drink", "water">>
    /\ bank[1].script = <<"tonight">>

\* the words two texts share, letter case aside
SharedWords(text1, text2) == WordSet(text1) \cap WordSet(text2)

\* the comparison pool of the call is one row, and its title shares no word
\* with the new title
OnlyItemSharesNoTitleWord ==
    /\ Cardinality(PoolOf(dup_call)) = 1
    /\ \A i \in PoolOf(dup_call) : SharedWords(bank[i].title, dup_call.new_title) = {}

\* C22 as claimed: when the only row of the comparison pool has a title that
\* shares no word with the new title, the call returns false for every
\* threshold > 0, whatever the two scripts are.
C22_DisjointTitleIsNoDuplicate ==
    (/\ dup_out.outcome = "returned"
     /\ OnlyItemSharesNoTitleWord
     /\ dup_call.similarity_threshold > 0)
        => dup_out.value = FALSE

\* C22 as amended: when the only row of the comparison pool has a title that
\* shares no word with the new title, and the first 200 characters of its
\* script share no word with the first 200 characters of the new script, the
\* call returns false for every threshold > 0.
C22_DisjointTitleAndScriptIsNoDuplicate ==
    (/\ dup_out.outcome = "returned"
     /\ OnlyItemSharesNoTitleWord
     /\ \A i \in PoolOf(dup_call) :
            SharedWords(FirstChars(bank[i].script, ScriptChars),
                        FirstChars(dup_call.new_script, ScriptChars)) = {}
     /\ dup_call.similarity_threshold > 0)
        => dup_out.value = FALSE

\* C22 witness: the only pool row has the title "walk outside" and the long
\* script, the call the title "drink water" and the script "water": the word
\* "water" of the long script lies past character 200, and the call returned
\* false at threshold 0.3.
C22_Witness ==
    /\ dup_out.outcome = "returned"
    /\ dup_out.value = FALSE
    /\ dup_call.similarity_threshold = 3
    /\ dup_call.new_title = <<"drink", "water">>
    /\ dup_call.new_script = <<"water">>
    /\ dup_call.content_pillar = "education"
    /\ dup_call.topic_cluster = None
    /\ Len(bank) = 1
    /\ bank[1].script = LongScript

\* the call has returned and its policy is not the muted one
PickedUnmuted ==
    /\ audio_out.outcome = "returned"
    /\ audio_call.mode # "MUTED_FOR_PLATFORM_MUSIC"

\* C23: with the muted policy the call returns no track and makes no query
\* on the table, whatever mood and duration are asked for.
C23_MutedPicksNothing ==
    (audio_out.outcome = "returned" /\ audio_call.mode = "MUTED_FOR_PLATFORM_MUSIC")
        => (audio_out.track = None /\ audio_out.queries = 0)

\* C23 witness: muted, the mood "calm" asked for and a calm track in the
\* table: the call returned nothing.
C23_Witness ==
    /\ audio_out.outcome = "returned"
    /\ audio_call.mode = "MUTED_FOR_PLATFORM_MUSIC"
    /\ audio_call.music_mood = Some(<<"c", "a", "l", "m">>)
    /\ \E t \in audio_call.tracks : t.mood = <<"c", "a", "l", "m">>
    /\ audio_out.track = None

\* C24: with a policy that is not muted the call returns a track of the table
\* if and only if the table has a track, whatever mood and duration are asked
\* for; with an empty table it returns no track.
C24_TrackIffTableNotEmpty ==
    PickedUnmuted
        => /\ (audio_out.track # None) <=> (audio_call.tracks # {})
           /\ audio_out.track # None => audio_out.track[1] \in audio_call.tracks

\* C24 witness: "calm" asked for, only energetic tracks in the table: an
\* energetic track was returned.
C24_Witness ==
    /\ PickedUnmuted
    /\ audio_call.music_mood = Some(<<"c", "a", "l", "m">>)
    /\ audio_call.tracks # {}
    /\ \A t \in audio_call.tracks : t.mood = <<"e", "n", "e", "r", "g", "e", "t", "i", "c">>
    /\ audio_out.track # None
    /\ audio_out.track[1].mood = <<"e", "n", "e", "r", "g", "e", "t", "i", "c">>

\* two moods are equal, letter case aside
SameMood(mood1, mood2) == lower(mood1) = lower(mood2)

\* C25: with a policy that is not muted, when the table has a track whose
\* mood is the mood asked for, letter case aside, the track returned has the
\* mood asked for, letter case aside.
C25_MoodMatchIgnoresCase ==
    (/\ PickedUnmuted
     /\ audio_call.music_mood # None
     /\ \E t \in audio_call.tracks : SameMood(t.mood, audio_call.music_mood[1]))
        => /\ audio_out.track # None
           /\ SameMood(audio_out.track[1].mood, audio_call.music_mood[1])

\* the candidates of the call: the tracks of the mood asked for, letter case
\* as stored, and the whole table when no mood is asked for or no track has it
CandidatesOf(call) ==
    LET mood == normalized_mood(call.music_mood)
        matching == {t \in call.tracks : t.mood = mood}
    IN IF mood # <<>> /\ matching # {} THEN matching ELSE call.tracks

\* C26: the track returned is a candidate; it is at least as long as asked
\* for whenever some candidate is, and shorter only when no candidate is.
C26_LongEnoughWhenPossible ==
    (PickedUnmuted /\ audio_out.track # None)
        => /\ audio_out.track[1] \in CandidatesOf(audio_call)
           /\ (\E t \in CandidatesOf(audio_call) :
                   t.length_seconds >= audio_call.estimated_length_seconds)
                 => audio_out.track[1].length_seconds >= audio_call.estimated_length_seconds

\* C26 witness: 100 seconds asked for, the calm candidates are 20 and 120
\* seconds long and a shorter energetic track is in the table: the 120 second
\* track was returned.
C26_Witness ==
    /\ PickedUnmuted
    /\ audio_call.music_mood = Some(<<"C", "A", "L", "M">>)
    /\ audio_call.estimated_length_seconds = 100
    /\ {t.id : t \in audio_call.tracks} = {1, 2, 3}
    /\ audio_out.track # None
    /\ audio_out.track[1].id = 2

\* items i < k of the run were given the same pillar, item i was inserted and
\* the plan of item k has the hook of item i, word for word
RepeatsCreatedTitle(i, k) ==
    /\ i < k
    /\ gout[i].kind = "created"
    /\ gout[k].plan # None
    /\ gout[k].plan[1].hook = gout[i].plan[1].hook
    /\ PillarOf(greq, k - 1) = PillarOf(greq, i - 1)

\* C27: in a run that is given a topic cluster, an item whose title is word
\* for word the title of an item the run inserted before it, under the same
\* pillar, is skipped as a near-duplicate and not inserted.
C27_RunItemsJoinThePool ==
    greq.topic_cluster # None
        => \A i, k \in DOMAIN gout :
               RepeatsCreatedTitle(i, k) => gout[k].kind = "duplicate"

\* the items of the run so far that are of one of the kinds
ItemsOfKind(kinds) == {i \in DOMAIN gout : gout[i].kind \in kinds}

\* the loop of the run is over: generate_batch_content returns created_ids
RunEnded == gpc \in {"finish", "done"}

\* C28: when a run of count items ends, every item is created, skipped as a
\* near-duplicate or failed, and the three counts add up to count; the ids
\* returned are the rows of the created items, in generation order; and no
\* step that skips a duplicate changes the failure count.
C28_ThreeClassesAddUp ==
    /\ [](RunEnded =>
            /\ Len(gout) = greq.count
            /\ Len(created_ids) = Cardinality(ItemsOfKind({"created"}))
            /\ duplicate_count = Cardinality(ItemsOfKind({"duplicate"}))
            /\ failed_count = Cardinality(ItemsOfKind({"generation_failed", "insert_failed"}))
            /\ Len(created_ids) + duplicate_count + failed_count = greq.count
            /\ \A n \in DOMAIN created_ids :
                  /\ created_ids[n] \in DOMAIN bank
                  /\ bank[created_ids[n]].title = gout[CreatedItems[n]].plan[1].hook
                  /\ \A m \in DOMAIN created_ids : m < n => created_ids[m] < created_ids[n])
    /\ [][\A plan \in Plans : GenDuplicate(plan) => failed_count' = failed_count]_vars

\* C28 witness: a run of 3 items has ended with one item created, one skipped
\* as a duplicate and one failed.
C28_Witness ==
    /\ gpc = "done"
    /\ greq.count = 3
    /\ gout[1].kind = "duplicate"
    /\ gout[2].kind = "created"
    /\ gout[3].kind = "generation_failed"
    /\ Len(created_ids) = 1
    /\ duplicate_count = 1
    /\ failed_count = 1

\* the assets a row has stored, as a request of the template type takes them
StoredAssets(row, template_type) ==
    <<row.primary_asset_url[1]>> \o
    (IF template_type = "video" /\ row.secondary_asset_url # None
     THEN <<row.secondary_asset_url[1]>> ELSE <<>>)

\* call m of the log stored visuals on the item that the later call n is for
StoredBefore(m, n) ==
    /\ m < n
    /\ rlog[m].item_id = rlog[n].item_id
    /\ rlog[m].searches > 0
    /\ rlog[m].after # None
    /\ rlog[m].after[1].primary_asset_url # None

\* C29: once a render attempt has searched visuals for an item and stored
\* them, every later attempt for the item makes no stock search and submits a
\* render of the stored primary asset (and, for a video, the stored secondary
\* asset), and leaves the stored assets as they are, whether the earlier
\* attempt returned a URL or not.
C29_StoredVisualsAreReused ==
    \A m, n \in DOMAIN rlog :
        StoredBefore(m, n)
            => /\ rlog[n].searches = 0
               /\ rlog[n].submitted =
                      Some(StoredAssets(rlog[m].after[1], rlog[n].template_type))
               /\ rlog[n].after[1].primary_asset_url = rlog[m].after[1].primary_asset_url
               /\ rlog[n].after[1].secondary_asset_url = rlog[m].after[1].secondary_asset_url

\* C29 witness: a first attempt for item 1 searched, stored two clips and
\* returned no URL; the second attempt, for a video again, made no search and
\* submitted the two clips.
C29_Witness ==
    /\ Len(rlog) = 2
    /\ rlog[1].item_id = 1 /\ rlog[2].item_id = 1
    /\ rlog[1].template_type = "video" /\ rlog[2].template_type = "video"
    /\ rlog[1].searches = 2
    /\ rlog[1].result = None
    /\ rlog[1].submitted = Some(<<"a3">>)
    /\ rlog[2].searches = 0
    /\ rlog[2].submitted = Some(<<"a3">>)
    /\ rlog[2].result = Some("v1.mp4")

\* the calls of the log for row i that returned a URL
Successes(i) == {n \in DOMAIN rlog : rlog[n].item_id = i /\ rlog[n].result # None}

\* C30: a call that returns a URL stores exactly this URL on the item, sets
\* last_render_status to succeeded and raises times_used by one; a call that
\* returns no URL leaves rendered_video_url and times_used as they were; a
\* call for a missing or not approved item leaves the item as it was; so every
\* row has been used as often as calls for it returned a URL, and has the URL
\* of the last such call.
C30_OnlySuccessWritesResult ==
    /\ \A n \in DOMAIN rlog :
          LET call == rlog[n]
          IN /\ call.result # None
                   => /\ call.before # None /\ call.after # None
                      /\ call.after[1].rendered_video_url = call.result
                      /\ call.after[1].last_render_status = Some("succeeded")
                      /\ call.after[1].times_used = call.before[1].times_used + 1
             /\ (call.result = None /\ call.before # None)
                   => /\ call.after # None
                      /\ call.after[1].rendered_video_url = call.before[1].rendered_video_url
                      /\ call.after[1].times_used = call.before[1].times_used
             /\ call.before = None => (call.after = None /\ call.result = None)
             /\ (call.before # None /\ call.before[1].status # "approved")
                   => (call.after = call.before /\ call.result = None)
    /\ Len(bank) = Len(RetryBank)
    /\ \A i \in DOMAIN bank :
          /\ bank[i].times_used = Cardinality(Successes(i))
          /\ IF Successes(i) = {} THEN bank[i].rendered_video_url = None
             ELSE bank[i].rendered_video_url =
                      rlog[CHOOSE n \in Successes(i) : \A k \in Successes(i) : k <= n].result

\* C30 witness: a call for item 1 that was answered with a failed render left
\* the URL empty and times_used 0, and the next call returned v1.mp4, which is
\* stored with times_used 1.
C30_Witness ==
    /\ Len(rlog) = 2
    /\ rlog[1].item_id = 1 /\ rlog[2].item_id = 1
    /\ rlog[1].result = None
    /\ rlog[1].submitted # None
    /\ rlog[1].after[1].rendered_video_url = None
    /\ rlog[1].after[1].times_used = 0
    /\ rlog[2].result = Some("v1.mp4")
    /\ bank[1].rendered_video_url = Some("v1.mp4")
    /\ bank[1].last_render_status = Some("succeeded")
    /\ bank[1].times_used = 1

====
